---- MODULE Spec2Model ----
(***************************************************************************)
(* Model of PicoRenderer's texture engine (src/rasterizer/texture.c):      *)
(* texture creation, image upload with MIP chain generation, sub-image     *)
(* update, MIP level lookup, MIP level selection and nearest sampling; of  *)
(* the bind and set calls of the state machine (pico.c); and of the        *)
(* immediate mode that streams vertices through a buffer of fixed size.    *)
(*                                                                         *)
(* One texture object is followed.  Its texel storage is the sequence      *)
(* texture.texels (one colour index per texel, all MIP levels appended);   *)
(* the empty sequence stands for the NULL pointer.  Every call leaves a    *)
(* record of its arguments, its return value and the memory operations it  *)
(* performed (call.events).  Uploads are made with dither = PR_FALSE.      *)
(* stateMachine holds the bindings and settings, immediate the capture     *)
(* between prBegin and prEnd, framebuffer the primitives rendered.         *)
(***************************************************************************)
EXTENDS Integers, Sequences, FiniteSets, TLC

VARIABLES texture, lastError, call, stateMachine, immediate, framebuffer

vars == <<texture, lastError, call, stateMachine, immediate, framebuffer>>

\* ------------------------------------------------------------- bounds ---

\* Largest width and height passed to an upload.
MaxSize == 4
\* Requested MIP levels run over 0 .. MaxLevel and the largest PRubyte.
MaxLevel == 4
\* Texel and pixel areas are the rationals 0/AreaDen .. MaxArea/AreaDen.
MaxArea == 6
\* Texture coordinates are the rationals -MaxCoord/CoordDen .. MaxCoord/CoordDen.
CoordDen == 20
MaxCoord == 20
\* The corner of a sub-image rectangle runs over 0 .. MaxPos in x and in y.
MaxPos == 2
\* Most vertices issued between prBegin and prEnd.
MaxVertices == 70

\* ---------------------------------------------------------- constants ---

PR_ERROR_NONE == "PR_ERROR_NONE"
PR_ERROR_NULL_POINTER == "PR_ERROR_NULL_POINTER"
PR_ERROR_INVALID_ARGUMENT == "PR_ERROR_INVALID_ARGUMENT"
PR_ERROR_ARGUMENT_MISMATCH == "PR_ERROR_ARGUMENT_MISMATCH"

PR_IMAGE_FORMAT_UBYTE_RGB == "PR_IMAGE_FORMAT_UBYTE_RGB"
PR_IMAGE_FORMAT_OTHER == "PR_IMAGE_FORMAT_OTHER"
Formats == {PR_IMAGE_FORMAT_UBYTE_RGB, PR_IMAGE_FORMAT_OTHER}

\* Buffer names used in memory events.
BufNull == <<"null", 0>>
BufTexels == <<"texels", 0>>
BufData == <<"data", 0>>
\* The buffer _image_scale_down allocates while MIP level mip is built.
BufScaled(mip) == <<"scaled", mip>>

\* Number of values of a PRubyte.
UByteRange == 2 ^ 8

Max(a, b) == IF a > b THEN a ELSE b
Min(a, b) == IF a < b THEN a ELSE b

\* PR_CLAMP(x, a, b) of helper.h.
PR_CLAMP(x, a, b) == IF x < a THEN a ELSE IF x > b THEN b ELSE x

\* A value stored into a PRubyte.
ToUByte(x) == x % UByteRange

\* size >> mip on an int; a shift count of 31 or more leaves 0 of a
\* non-negative size on the builds in use.
ShiftRight(size, mip) == IF mip >= 31 THEN 0 ELSE size \div (2 ^ mip)

\* PR_MIP_SIZE(size, mip) of texture.h: the size of a MIP level.
PR_MIP_SIZE(size, mip) == Max(1, ShiftRight(size, mip))

\* _pr_error_set: overwrites the process-wide last error.
pr_error_set(errorID) == errorID

\* ------------------------------------------------------- caller images ---

\* The caller's RGB image of the given size: seed 0 is uniform, the others
\* vary per pixel in the high and in the low bits of every channel.  A pixel
\* is <<r, g, b>>.
Pixel(seed, x, y) ==
    IF seed = 0 THEN <<255, 170, 85>>
    ELSE << (seed * 37 + x * 101 + y * 67) % 256,
            (seed * 11 + x * 163 + y * 29) % 256,
            (seed * 5 + x * 71 + y * 131) % 256 >>

Image(seed, width, height) ==
    [k \in 1 .. width * height |->
        Pixel(seed, (k - 1) % width, (k - 1) \div width)]

\* A buffer handed around as (const PRvoid* data): its name and its pixels.
NullData == [id |-> BufNull, px |-> <<>>]

\* -------------------------------------------------------- colour model ---

\* _pr_color_to_colorindex_r3g3b2: 3 bits red, 3 bits green, 2 bits blue.
color_to_colorindex_r3g3b2(c) ==
    (c[1] \div 32) * 32 + (c[2] \div 32) * 4 + (c[3] \div 64)

\* _pr_image_color_to_colorindex_r3g3b2 without dithering: one index per pixel.
image_color_to_colorindex_r3g3b2(px) ==
    [k \in 1 .. Len(px) |-> color_to_colorindex_r3g3b2(px[k])]

\* ------------------------------------------------------- memory events ---

Event(op, buf, off, n) == [op |-> op, buf |-> buf, off |-> off, n |-> n]
EvFree(buf) == Event("free", buf, 0, 0)
EvAlloc(buf, n) == Event("alloc", buf, 0, n)
EvWrite(off, n) == Event("write", BufTexels, off, n)

\* Storing vals at texels + off; a store outside the block is dropped.
WriteTexels(texels, off, vals) ==
    [k \in 1 .. Len(texels) |->
        IF k > off /\ k <= off + Len(vals) THEN vals[k - off] ELSE texels[k]]

\* PR_CALLOC(PRubyte, n): n zeroed texels.
CallocTexels(n) == [k \in 1 .. n |-> 0]

\* ---------------------------------------------------------- box filter ---

\* Variant of _color_box4_blur that keeps the sum in a PRubyte.
color_box4_blur_byteSum(a, b, c, d) == ToUByte(a + b + c + d) \div 4

\* _color_box4_blur and _color_box2_blur: the sum is kept in a PRint.
color_box4_blur(a, b, c, d) == ToUByte((a + b + c + d) \div 4)

color_box2_blur(a, b) == ToUByte((a + b) \div 2)

\* COLOR(x, y, i) of _image_scale_down_ubyte_rgb: channel i of pixel (x, y).
COLOR(px, width, x, y, i) == px[y * width + x + 1][i]

ScaledSize(size) == IF size > 1 THEN size \div 2 ELSE 1

\* The pixels _image_scale_down_ubyte_rgb returns for a width x height image.
image_scale_down_ubyte_rgb(width, height, px) ==
    LET scaledWidth == ScaledSize(width)
        scaledHeight == ScaledSize(height)
    IN  [k \in 1 .. scaledWidth * scaledHeight |->
            LET x == (k - 1) % scaledWidth
                y == (k - 1) \div scaledWidth
            IN  [i \in 1 .. 3 |->
                    IF width > 1 /\ height > 1
                    THEN color_box4_blur(COLOR(px, width, x * 2, y * 2, i),
                                         COLOR(px, width, x * 2 + 1, y * 2, i),
                                         COLOR(px, width, x * 2 + 1, y * 2 + 1, i),
                                         COLOR(px, width, x * 2, y * 2 + 1, i))
                    ELSE IF width > 1
                    THEN color_box2_blur(COLOR(px, width, x * 2, 0, i),
                                         COLOR(px, width, x * 2 + 1, 0, i))
                    ELSE IF height > 1
                    THEN color_box2_blur(COLOR(px, width, 0, y * 2, i),
                                         COLOR(px, width, 0, y * 2 + 1, i))
                    ELSE 0]]

\* The pixels <<x, y>> of the source image that _image_scale_down_ubyte_rgb
\* reads through COLOR.
image_scale_down_reads(width, height) ==
    LET scaledWidth == ScaledSize(width)
        scaledHeight == ScaledSize(height)
    IN  IF width > 1 /\ height > 1
        THEN UNION {{<<x * 2, y * 2>>, <<x * 2 + 1, y * 2>>,
                     <<x * 2 + 1, y * 2 + 1>>, <<x * 2, y * 2 + 1>>} :
                        x \in 0 .. scaledWidth - 1, y \in 0 .. scaledHeight - 1}
        ELSE IF width > 1
        THEN UNION {{<<x * 2, 0>>, <<x * 2 + 1, 0>>} : x \in 0 .. scaledWidth - 1}
        ELSE IF height > 1
        THEN UNION {{<<0, y * 2>>, <<0, y * 2 + 1>>} : y \in 0 .. scaledHeight - 1}
        ELSE {}

\* Variant of _image_scale_down that scales down what the colour indices of
\* the level before stand for: each channel cut to its 3, 3 and 2 bits.
image_scale_down_quantized(width, height, format, data, mip) ==
    IF format = PR_IMAGE_FORMAT_UBYTE_RGB
    THEN [id |-> BufScaled(mip),
          px |-> image_scale_down_ubyte_rgb(width, height,
                     [k \in 1 .. Len(data.px) |->
                         << (data.px[k][1] \div 32) * 32,
                            (data.px[k][2] \div 32) * 32,
                            (data.px[k][3] \div 64) * 64 >>])]
    ELSE NullData

\* _image_scale_down: a new buffer for the RGB format, NULL for any other.
image_scale_down(width, height, format, data, mip) ==
    IF format = PR_IMAGE_FORMAT_UBYTE_RGB
    THEN [id |-> BufScaled(mip),
          px |-> image_scale_down_ubyte_rgb(width, height, data.px)]
    ELSE NullData

\* -------------------------------------------------------------- upload ---

\* _pr_texture_create: zero dimensions, no MIP level, no storage.
pr_texture_create == [width |-> 0, height |-> 0, mips |-> 0, texels |-> <<>>]

\* One halving step of a MIP dimension: if (w > 1) w /= 2.
HalveMipSize(size) == IF size > 1 THEN size \div 2 ELSE size

\* Variant of the count that takes three bytes per texel, as the RGB input.
LevelTexels_rgb(w, h) == w * h * 3

\* The texels one pass of the counting loop adds: numTexels += w*h.
LevelTexels(w, h) == w * h

\* Variant of the exit test that stops at the first dimension to reach 1.
MipLoopDone_either(w, h) == w = 1 \/ h = 1

\* The exit test of the counting loop.
MipLoopDone(w, h) == w = 1 /\ h = 1

\* The counting loop of _pr_texture_image2d, entered with mips and numTexels.
RECURSIVE CountMips(_, _, _, _)
CountMips(w, h, mips, numTexels) ==
    LET n == numTexels + LevelTexels(w, h)
        m == ToUByte(mips + 1)
    IN  IF MipLoopDone(w, h)
        THEN [mips |-> m, numTexels |-> n]
        ELSE CountMips(HalveMipSize(w), HalveMipSize(h), m, n)

\* "Determine number of texels": the MIP count and the allocation size.
DetermineTexels(width, height, generateMips) ==
    IF generateMips
    THEN CountMips(width, height, 0, 0)
    ELSE [mips |-> 1, numTexels |-> width * height]

\* Variant of the reallocation test that leaves the MIP count out.
MustReallocate_noMips(tex, width, height, mips) ==
    tex.width # width \/ tex.height # height

\* "Check if texels must be reallocated".
MustReallocate(tex, width, height, mips) ==
    tex.width # width \/ tex.height # height \/ tex.mips # mips

\* A running upload works on a record m: the texture (tex), the last error
\* (err), the memory events so far (events) and the return value (ret).

\* Variant of _texture_subimage2d that is handed the start of the storage
\* for every level.
texture_subimage2d_atBase(m, off, width, height, format, data) ==
    IF format # PR_IMAGE_FORMAT_UBYTE_RGB
    THEN [m EXCEPT !.err = pr_error_set(PR_ERROR_INVALID_ARGUMENT)]
    ELSE [m EXCEPT
            !.tex.texels = WriteTexels(@, 0,
                               image_color_to_colorindex_r3g3b2(data.px)),
            !.events = Append(@, EvWrite(0, width * height))]

\* _texture_subimage2d: quantizes data into texels + off, or records
\* InvalidArgument for any format but RGB and writes nothing.
texture_subimage2d(m, off, width, height, format, data) ==
    IF format # PR_IMAGE_FORMAT_UBYTE_RGB
    THEN [m EXCEPT !.err = pr_error_set(PR_ERROR_INVALID_ARGUMENT)]
    ELSE [m EXCEPT
            !.tex.texels = WriteTexels(@, off,
                               image_color_to_colorindex_r3g3b2(data.px)),
            !.events = Append(@, EvWrite(off, width * height))]

\* PR_FREE(prevData) inside the loop.
FreePrevInLoop(m, mip, prevData) ==
    IF mip > 1 THEN [m EXCEPT !.events = Append(@, EvFree(prevData.id))] ELSE m

\* The loop "for (mip = 1; mip < texture->mips; ++mip)" and the PR_FREE
\* after it, entered with texels at offset off of the storage.
RECURSIVE FillMips(_, _, _, _, _, _, _)

\* One pass of the loop body, data being what _image_scale_down returned.
FillStep(m, mip, nextOff, width, height, format, prevData, data) ==
    LET m1 == IF data = NullData THEN m
              ELSE [m EXCEPT !.events =
                            Append(@, EvAlloc(data.id, Len(data.px) * 3))]
        m2 == FreePrevInLoop(m1, mip, prevData)
    IN  IF data = NullData
        THEN [m2 EXCEPT !.err = pr_error_set(PR_ERROR_INVALID_ARGUMENT),
                             !.ret = FALSE]
        ELSE LET w == HalveMipSize(width)
                 h == HalveMipSize(height)
             IN  FillMips(texture_subimage2d(m2, nextOff, w, h, format, data),
                               ToUByte(mip + 1), nextOff, w, h, format, data)

FillMips(m, mip, off, width, height, format, prevData) ==
    IF mip >= m.tex.mips
    THEN [m EXCEPT !.events = Append(@, EvFree(prevData.id)), !.ret = TRUE]
    ELSE FillStep(m, mip, off + width * height, width, height, format, prevData,
             image_scale_down(width, height, format, prevData, mip))

\* Variant of the allocation that holds the base level only.
AllocSize_baseLevel(numTexels, width, height) == width * height

\* The size handed to PR_CALLOC for the texels.
AllocSize(numTexels, width, height) == numTexels

\* The reallocation of _pr_texture_image2d.
Reallocate(m, width, height, count) ==
    IF MustReallocate(m.tex, width, height, count.mips)
    THEN [m EXCEPT
            !.tex = [width |-> width, height |-> height, mips |-> count.mips,
                     texels |-> CallocTexels(
                         AllocSize(count.numTexels, width, height))],
            !.events = @ \o << EvFree(IF m.tex.texels = <<>> THEN BufNull
                                      ELSE BufTexels),
                               EvAlloc(BufTexels,
                                   AllocSize(count.numTexels, width, height)) >>]
    ELSE m

\* Variant of the validation that checks the size before the handle.
ValidateParameters_sizeFirst(handle, width, height) ==
    IF width = 0 \/ height = 0 THEN PR_ERROR_INVALID_ARGUMENT
    ELSE IF handle = "NULL" THEN PR_ERROR_NULL_POINTER
    ELSE PR_ERROR_NONE

\* "Validate parameters": the error of the first check that fails.
ValidateParameters(handle, width, height) ==
    IF handle = "NULL" THEN PR_ERROR_NULL_POINTER
    ELSE IF width = 0 \/ height = 0 THEN PR_ERROR_INVALID_ARGUMENT
    ELSE PR_ERROR_NONE

\* Variant of the early return that has stored the requested size already.
RejectParameters_storeSize(m, errorID, width, height) ==
    [m EXCEPT !.err = pr_error_set(errorID), !.ret = FALSE,
              !.tex.width = width, !.tex.height = height]

\* The early return of a call whose parameters are invalid.
RejectParameters(m, errorID, width, height) ==
    [m EXCEPT !.err = pr_error_set(errorID), !.ret = FALSE]

\* _pr_texture_image2d on the texture tex (handle "texture") or on a null
\* handle; data is the caller's buffer.
pr_texture_image2d(tex, err, handle, width, height, format, data, generateMips) ==
    LET m0 == [tex |-> tex, err |-> err, events |-> <<>>, ret |-> FALSE]
        invalid == ValidateParameters(handle, width, height)
    IN  IF invalid # PR_ERROR_NONE
        THEN RejectParameters(m0, invalid, width, height)
        ELSE LET count == DetermineTexels(width, height, generateMips)
                 m1 == Reallocate(m0, width, height, count)
                 m2 == texture_subimage2d(m1, 0, width, height, format, data)
             IN  IF generateMips
                 THEN FillMips(m2, 1, 0, width, height, format, data)
                 ELSE [m2 EXCEPT !.ret = TRUE]

\* _texture_subimage2d_rect: its body is empty, nothing is written.
texture_subimage2d_rect(m, mip, x, y, width, height, format, data) == m

\* The rectangle part of the parameter check of _pr_texture_subimage2d.
RectangleOutside(tex, x, y, width, height) ==
    x < 0 \/ y < 0 \/ x + width >= tex.width \/ y + height >= tex.height

\* _pr_texture_subimage2d on the texture tex or on a null handle.
pr_texture_subimage2d(tex, err, handle, mip, x, y, width, height, format, data) ==
    LET m0 == [tex |-> tex, err |-> err, events |-> <<>>, ret |-> FALSE]
    IN  IF handle = "NULL"
        THEN [m0 EXCEPT !.err = pr_error_set(PR_ERROR_NULL_POINTER)]
        ELSE IF \/ tex.texels = <<>>
                \/ RectangleOutside(tex, x, y, width, height)
                \/ width <= 0
                \/ height <= 0
                \/ mip >= tex.mips
        THEN [m0 EXCEPT !.err = pr_error_set(PR_ERROR_INVALID_ARGUMENT)]
        ELSE [texture_subimage2d_rect(m0, mip, x, y, width, height, format, data)
                 EXCEPT !.ret = TRUE]

\* ------------------------------------------------------- state machine ---

\* The object handles that are bound: none, or one of two objects.
Handles == {"NULL", "object1", "object2"}

\* The 4x4 matrices that are set, by name.
Matrices == {"identity", "matrixA", "matrixB"}

\* The rectangles <<x, y, width, height>> that are set.
Rects == {<<0, 0, 4, 4>>, <<1, 1, 2, 2>>}

\* The colour indices that are set.
ColorIndices == {0, 1, UByteRange - 1}

\* _pr_state_machine_init: nothing bound, identity matrices, empty rectangles.
pr_state_machine_init ==
    [boundFramebuffer |-> "NULL", boundTexture |-> "NULL", colorIndex |-> 0,
     projectionMatrix |-> "identity", modelViewMatrix |-> "identity",
     viewport |-> <<0, 0, 0, 0>>, scissor |-> <<0, 0, 0, 0>>]

\* _pr_state_machine_bind_framebuffer and _pr_state_machine_bind_texture.
pr_state_machine_bind_framebuffer(sm, fb) ==
    [sm EXCEPT !.boundFramebuffer = fb]

pr_state_machine_bind_texture(sm, tex) == [sm EXCEPT !.boundTexture = tex]

\* prColor: _stateMachine.colorIndex = colorIndex.
prColor(sm, colorIndex) == [sm EXCEPT !.colorIndex = ToUByte(colorIndex)]

\* Variant of prProjectionMatrix that copies into the model-view matrix.
prProjectionMatrix_modelView(sm, matrix4x4) ==
    [sm EXCEPT !.modelViewMatrix = matrix4x4]

\* prProjectionMatrix and prModelViewMatrix: memcpy into the matrix.
prProjectionMatrix(sm, matrix4x4) == [sm EXCEPT !.projectionMatrix = matrix4x4]

prModelViewMatrix(sm, matrix4x4) == [sm EXCEPT !.modelViewMatrix = matrix4x4]

\* prViewport and prScissor.
prViewport(sm, rect) == [sm EXCEPT !.viewport = rect]

prScissor(sm, rect) == [sm EXCEPT !.scissor = rect]

\* ------------------------------------------------------ immediate mode ---

\* The primitive kinds of prBegin and prDraw.
PrimitiveKinds ==
    {"PR_POINTS", "PR_LINES", "PR_LINE_STRIP", "PR_LINE_LOOP", "PR_TRIANGLES",
     "PR_TRIANGLE_STRIP", "PR_TRIANGLE_FAN"}

\* The capacity of the immediate vertex buffer.
PR_NUM_IMMEDIATE_VERTICES == 32

\* The error codes an operation may report.
ErrorCodes ==
    {PR_ERROR_NULL_POINTER, PR_ERROR_INVALID_ARGUMENT, PR_ERROR_ARGUMENT_MISMATCH}

\* The primitives one draw call makes of the vertices v, each a tuple of
\* vertices: every vertex a point, every pair or every two neighbours a
\* line, every triple or every three neighbours a triangle, a loop closed by
\* the line back to the first vertex and a fan spread from the first.
AssemblePrimitives(primitives, v) ==
    LET n == Len(v)
    IN  CASE primitives = "PR_POINTS" -> {<<v[i]>> : i \in 1 .. n}
          [] primitives = "PR_LINES" ->
                {<<v[2 * i - 1], v[2 * i]>> : i \in 1 .. n \div 2}
          [] primitives = "PR_LINE_STRIP" ->
                {<<v[i], v[i + 1]>> : i \in 1 .. n - 1}
          [] primitives = "PR_LINE_LOOP" ->
                {<<v[i], v[i + 1]>> : i \in 1 .. n - 1}
                    \cup (IF n > 2 THEN {<<v[n], v[1]>>} ELSE {})
          [] primitives = "PR_TRIANGLES" ->
                {<<v[3 * i - 2], v[3 * i - 1], v[3 * i]>> : i \in 1 .. n \div 3}
          [] primitives = "PR_TRIANGLE_STRIP" ->
                {<<v[i], v[i + 1], v[i + 2]>> : i \in 1 .. n - 2}
          [] primitives = "PR_TRIANGLE_FAN" ->
                {<<v[1], v[i], v[i + 1]>> : i \in 2 .. n - 1}

\* One draw call from a vertex buffer without index buffer: the framebuffer
\* is followed as the set of primitives rendered into it since it was cleared.
pr_render(fb, primitives, v) == fb \cup AssemblePrimitives(primitives, v)

\* The immediate mode before prBegin: no capture open, nothing captured.
\* issued counts the vertices since prBegin; vertex k is the k-th issued.
immediate_mode_init ==
    [open |-> FALSE, primitives |-> "PR_POINTS", vertices |-> <<>>,
     issued |-> 0]

\* prBegin with no capture open.
immediate_mode_begin(im, primitives) ==
    [open |-> TRUE, primitives |-> primitives, vertices |-> <<>>, issued |-> 0]

\* The flush: the captured vertices are drawn and the buffer is cleared.
\* r is the immediate mode (im) and the framebuffer (fb).
immediate_mode_flush(r) ==
    [im |-> [r.im EXCEPT !.vertices = <<>>],
     fb |-> pr_render(r.fb, r.im.primitives, r.im.vertices)]

\* prVertex: the vertex is appended, and a buffer that has reached its
\* capacity is flushed before it accepts more.
immediate_mode_add_vertex(r) ==
    LET added == [r EXCEPT !.im.vertices = Append(@, r.im.issued + 1),
                           !.im.issued = @ + 1]
    IN  IF Len(added.im.vertices) >= PR_NUM_IMMEDIATE_VERTICES
        THEN immediate_mode_flush(added)
        ELSE added

\* prEnd with a capture open: what is left is flushed, the capture closed.
immediate_mode_end(r) ==
    LET flushed == immediate_mode_flush(r)
    IN  [flushed EXCEPT !.im.open = FALSE]

\* ------------------------------------------------------------- actions ---

\* The caller images.
Seeds == {1}

\* The record of a call: its arguments (those the operation does not take
\* are zero), whether it has returned, and what it returned.
NoCall == [op |-> "none", done |-> TRUE, handle |-> "texture",
           width |-> 0, height |-> 0,
           format |-> PR_IMAGE_FORMAT_UBYTE_RGB, generateMips |-> FALSE,
           seed |-> 0, ret |-> TRUE, events |-> <<>>,
           mip |-> 0, pixelArea |-> 0, texelArea |-> 0, u |-> 0, v |-> 0,
           x |-> 0, y |-> 0, color |-> 0, arg |-> <<>>, out |-> <<>>]

Init ==
    /\ texture = pr_texture_create
    /\ lastError = PR_ERROR_NONE
    /\ call = NoCall
    /\ stateMachine = pr_state_machine_init
    /\ immediate = immediate_mode_init
    /\ framebuffer = {}

\* prGenTexture: a new empty texture, which the model follows from now on.
Create ==
    /\ texture' = pr_texture_create
    /\ call' = [NoCall EXCEPT !.op = "create"]
    /\ UNCHANGED <<lastError, stateMachine, immediate, framebuffer>>

\* One call of _pr_texture_image2d and the record it leaves.
DoUpload(handle, width, height, format, generateMips, seed) ==
    LET data == [id |-> BufData, px |-> Image(seed, width, height)]
    IN \E r \in {pr_texture_image2d(texture, lastError, handle, width, height,
                                format, data, generateMips)} :
        /\ texture' = r.tex
        /\ lastError' = r.err
        /\ call' = [NoCall EXCEPT
                      !.op = "upload", !.handle = handle, !.width = width,
                      !.height = height, !.format = format,
                      !.generateMips = generateMips, !.seed = seed,
                      !.ret = r.ret, !.events = r.events]
        /\ UNCHANGED <<stateMachine, immediate, framebuffer>>

\* prTextureImage2D on the texture with a non-empty size.
Upload ==
    \E width \in 1 .. MaxSize, height \in 1 .. MaxSize, format \in Formats,
       generateMips \in BOOLEAN, seed \in Seeds :
        DoUpload("texture", width, height, format, generateMips, seed)

\* The sizes with a zero width or a zero height that are tried.
ZeroSizes ==
    {<<0, 0>>, <<0, 1>>, <<1, 0>>, <<0, MaxSize>>, <<MaxSize, 0>>}

\* prTextureImage2D on the texture with an empty size.
UploadZeroSize ==
    \E size \in ZeroSizes, format \in Formats, generateMips \in BOOLEAN :
        DoUpload("texture", size[1], size[2], format, generateMips, 1)

\* prTextureImage2D on a null handle, with valid and invalid other arguments.
UploadNull ==
    \E size \in {<<1, 1>>, <<0, 1>>}, format \in Formats :
        DoUpload("NULL", size[1], size[2], format, TRUE, 1)

Next == Create \/ Upload \/ UploadZeroSize \/ UploadNull

Spec == Init /\ [][Next]_vars

\* -------------------------------------------------------------- lookup ---

\* Variant of the walk that adds the size of the base level for every level
\* it passes.
SelectWalk_noHalving(w, h, mip, off) == off + mip * (w * h)

\* The walk "while (mip > 0)" of _pr_texture_select_miplevel: the offset of
\* the level reached, starting at offset off with level size w x h.  Once
\* neither dimension is above 1 the remaining passes leave w and h alone
\* and add w*h each.
RECURSIVE SelectWalk(_, _, _, _)
SelectWalk(w, h, mip, off) ==
    IF mip = 0 THEN off
    ELSE IF w <= 1 /\ h <= 1 THEN off + mip * (w * h)
    ELSE SelectWalk(HalveMipSize(w), HalveMipSize(h), mip - 1, off + w * h)

\* The level _pr_texture_select_miplevel looks up: mip clamped, as a PRubyte.
SelectClamp(tex, mip) == ToUByte(PR_CLAMP(mip, 0, tex.mips - 1))

\* _pr_texture_select_miplevel: the level looked up, its size and the offset
\* of the returned pointer from texture->texels.
pr_texture_select_miplevel(tex, mip) ==
    LET level == SelectClamp(tex, mip)
    IN  [mip |-> level,
         width |-> PR_MIP_SIZE(tex.width, level),
         height |-> PR_MIP_SIZE(tex.height, level),
         offset |-> SelectWalk(tex.width, tex.height, level, 0)]

\* (PRubyte)f of a float f whose integer part is x: outside 0 .. 255 the
\* conversion is undefined and yields either end of the range.
FloatToUByte(x) ==
    IF x >= 0 /\ x < UByteRange THEN {x} ELSE {0, UByteRange - 1}

\* PR_CLAMP(num/den, 0, top) of a float num/den (den > 0), cut to its
\* integer part as the cast to PRubyte cuts it.
ClampedLevel(num, den, top) ==
    IF num < 0 THEN 0
    ELSE IF num > top * den THEN top
    ELSE num \div den

\* Variant of _pr_texutre_compute_miplevel that clamps to [0, mips].
pr_texutre_compute_miplevel_mips(tex, pixelArea, texelArea) ==
    ClampedLevel(texelArea * (tex.width * tex.height), 2 * pixelArea, tex.mips)

\* _pr_texutre_compute_miplevel for pixelArea > 0; the areas are numerators
\* over a common denominator, so that texelArea * (width*height) * 0.5 /
\* pixelArea is (texelArea * width * height) / (2 * pixelArea).
pr_texutre_compute_miplevel(tex, pixelArea, texelArea) ==
    ClampedLevel(texelArea * (tex.width * tex.height), 2 * pixelArea,
                 tex.mips - 1)

\* (PRint)f of the float num/den (den > 0): rounding towards zero.
FloatToInt(num, den) ==
    IF num >= 0 THEN num \div den ELSE -((-num) \div den)

\* The texel coordinate _pr_texture_sample_nearest computes for a texture
\* coordinate coord/CoordDen on a level of the given size.
SampleCoord(size, coord) ==
    LET whole == FloatToInt(coord, CoordDen)
        x == FloatToInt((coord - whole * CoordDen) * size, CoordDen)
    IN  IF x < 0 THEN x + size ELSE x

\* _pr_texture_sample_nearest on the level at mipTexels + offset: the texel
\* coordinates, the index read and the texel.
pr_texture_sample_nearest(texels, offset, width, height, u, v) ==
    LET x == SampleCoord(width, u)
        y == SampleCoord(height, v)
    IN  [x |-> x, y |-> y, index |-> y * width + x,
         texel |-> texels[offset + y * width + x + 1]]

\* ------------------------------------------ the lookups, one call each ---

\* The textures a lookup is made on: the empty one prGenTexture returns and
\* those a first upload leaves.
UploadedTexture(width, height, generateMips, seed) ==
    pr_texture_image2d(pr_texture_create, PR_ERROR_NONE, "texture", width,
                       height, PR_IMAGE_FORMAT_UBYTE_RGB,
                       [id |-> BufData, px |-> Image(seed, width, height)],
                       generateMips).tex

Textures ==
    {pr_texture_create} \cup
    {UploadedTexture(w, h, g, 1) : w \in 1 .. MaxSize, h \in 1 .. MaxSize,
                                   g \in BOOLEAN}

\* The MIP levels asked for.
Levels == (0 .. MaxLevel) \cup {UByteRange - 1}

InitLookup ==
    /\ texture \in Textures
    /\ lastError = PR_ERROR_NONE
    /\ stateMachine = pr_state_machine_init
    /\ immediate = immediate_mode_init
    /\ framebuffer = {}
    /\ \/ \E mip \in Levels :
            call = [NoCall EXCEPT !.op = "select", !.done = FALSE, !.mip = mip]
       \/ \E pixelArea \in 1 .. MaxArea, texelArea \in 0 .. MaxArea :
            call = [NoCall EXCEPT !.op = "compute", !.done = FALSE,
                                  !.pixelArea = pixelArea,
                                  !.texelArea = texelArea]

\* _pr_texture_select_miplevel(texture, mip, &width, &height).
SelectMipLevel ==
    /\ call.op = "select"
    /\ ~call.done
    /\ call' = [call EXCEPT !.done = TRUE,
                            !.out = pr_texture_select_miplevel(texture, call.mip)]
    /\ UNCHANGED <<texture, lastError, stateMachine, immediate, framebuffer>>

\* _pr_texutre_compute_miplevel(texture, pixelArea, texelArea).
ComputeMipLevel ==
    /\ call.op = "compute"
    /\ ~call.done
    /\ \E level \in FloatToUByte(pr_texutre_compute_miplevel(
                        texture, call.pixelArea, call.texelArea)) :
            call' = [call EXCEPT !.done = TRUE, !.out = [level |-> level]]
    /\ UNCHANGED <<texture, lastError, stateMachine, immediate, framebuffer>>

NextLookup == SelectMipLevel \/ ComputeMipLevel

SpecLookup == InitLookup /\ [][NextLookup]_vars

\* The texture coordinates sampled, as numerators over CoordDen.
Coords == (-MaxCoord) .. MaxCoord

InitSample ==
    /\ \E w \in 1 .. MaxSize, h \in 1 .. MaxSize :
            texture = UploadedTexture(w, h, FALSE, 1)
    /\ lastError = PR_ERROR_NONE
    /\ stateMachine = pr_state_machine_init
    /\ immediate = immediate_mode_init
    /\ framebuffer = {}
    /\ \E u \in Coords, v \in Coords :
            call = [NoCall EXCEPT !.op = "sample", !.done = FALSE,
                                  !.u = u, !.v = v]

\* _pr_texture_sample_nearest on level 0 of the texture.
SampleNearest ==
    /\ call.op = "sample"
    /\ ~call.done
    /\ LET level == pr_texture_select_miplevel(texture, call.mip)
       IN  call' = [call EXCEPT
                      !.done = TRUE,
                      !.out = pr_texture_sample_nearest(texture.texels,
                                  level.offset, level.width, level.height,
                                  call.u, call.v)]
    /\ UNCHANGED <<texture, lastError, stateMachine, immediate, framebuffer>>

NextSample == SampleNearest

SpecSample == InitSample /\ [][NextSample]_vars

\* The channel values of the uniform images that are scaled down.
Channels == 0 .. (UByteRange - 1)

UniformImage(width, height, c) == [k \in 1 .. width * height |-> <<c, c, c>>]

InitBox ==
    /\ texture = pr_texture_create
    /\ lastError = PR_ERROR_NONE
    /\ stateMachine = pr_state_machine_init
    /\ immediate = immediate_mode_init
    /\ framebuffer = {}
    /\ \E w \in 1 .. MaxSize, h \in 1 .. MaxSize, c \in Channels :
            call = [NoCall EXCEPT !.op = "scale", !.done = FALSE,
                                  !.width = w, !.height = h, !.color = c]

\* _image_scale_down_ubyte_rgb on a uniform image.
ScaleDown ==
    /\ call.op = "scale"
    /\ ~call.done
    /\ call' = [call EXCEPT
                  !.done = TRUE,
                  !.out = image_scale_down_ubyte_rgb(call.width, call.height,
                              UniformImage(call.width, call.height, call.color))]
    /\ UNCHANGED <<texture, lastError, stateMachine, immediate, framebuffer>>

NextBox == ScaleDown

SpecBox == InitBox /\ [][NextBox]_vars

\* The sub-image updates: the texture, the handle and the rectangle.
InitSubImage ==
    /\ texture \in Textures
    /\ lastError = PR_ERROR_NONE
    /\ stateMachine = pr_state_machine_init
    /\ immediate = immediate_mode_init
    /\ framebuffer = {}
    /\ \E handle \in {"texture", "NULL"}, mip \in Levels,
          x \in 0 .. MaxPos, y \in 0 .. MaxPos,
          width \in 0 .. MaxSize, height \in 0 .. MaxSize :
            call = [NoCall EXCEPT !.op = "subimage", !.done = FALSE,
                                  !.handle = handle, !.mip = mip,
                                  !.x = x, !.y = y,
                                  !.width = width, !.height = height]

\* _pr_texture_subimage2d with an image of the rectangle's size.
SubImage ==
    /\ call.op = "subimage"
    /\ ~call.done
    /\ \E r \in {pr_texture_subimage2d(texture, lastError, call.handle,
                       call.mip, call.x, call.y, call.width, call.height,
                       call.format,
                       [id |-> BufData,
                        px |-> Image(1, call.width, call.height)])} :
            /\ texture' = r.tex
            /\ lastError' = r.err
            /\ call' = [call EXCEPT !.done = TRUE, !.ret = r.ret]
            /\ UNCHANGED <<stateMachine, immediate, framebuffer>>

NextSubImage == SubImage

SpecSubImage == InitSubImage /\ [][NextSubImage]_vars

\* ------------------------------------------- the state machine's calls ---

\* prBindFramebuffer(framebuffer).
BindFramebuffer ==
    \E fb \in Handles :
        /\ stateMachine' = pr_state_machine_bind_framebuffer(stateMachine, fb)
        /\ call' = [NoCall EXCEPT !.op = "bindFramebuffer", !.handle = fb]
        /\ UNCHANGED <<texture, lastError, immediate, framebuffer>>

\* prBindTexture(texture).
BindTexture ==
    \E tex \in Handles :
        /\ stateMachine' = pr_state_machine_bind_texture(stateMachine, tex)
        /\ call' = [NoCall EXCEPT !.op = "bindTexture", !.handle = tex]
        /\ UNCHANGED <<texture, lastError, immediate, framebuffer>>

\* prColor(colorIndex).
Color ==
    \E colorIndex \in ColorIndices :
        /\ stateMachine' = prColor(stateMachine, colorIndex)
        /\ call' = [NoCall EXCEPT !.op = "color", !.color = colorIndex]
        /\ UNCHANGED <<texture, lastError, immediate, framebuffer>>

\* prProjectionMatrix(matrix4x4).
ProjectionMatrix ==
    \E matrix4x4 \in Matrices :
        /\ stateMachine' = prProjectionMatrix(stateMachine, matrix4x4)
        /\ call' = [NoCall EXCEPT !.op = "projectionMatrix", !.arg = matrix4x4]
        /\ UNCHANGED <<texture, lastError, immediate, framebuffer>>

\* prModelViewMatrix(matrix4x4).
ModelViewMatrix ==
    \E matrix4x4 \in Matrices :
        /\ stateMachine' = prModelViewMatrix(stateMachine, matrix4x4)
        /\ call' = [NoCall EXCEPT !.op = "modelViewMatrix", !.arg = matrix4x4]
        /\ UNCHANGED <<texture, lastError, immediate, framebuffer>>

\* prViewport(x, y, width, height).
Viewport ==
    \E rect \in Rects :
        /\ stateMachine' = prViewport(stateMachine, rect)
        /\ call' = [NoCall EXCEPT !.op = "viewport", !.arg = rect]
        /\ UNCHANGED <<texture, lastError, immediate, framebuffer>>

\* prScissor(x, y, width, height).
Scissor ==
    \E rect \in Rects :
        /\ stateMachine' = prScissor(stateMachine, rect)
        /\ call' = [NoCall EXCEPT !.op = "scissor", !.arg = rect]
        /\ UNCHANGED <<texture, lastError, immediate, framebuffer>>

NextState ==
    \/ BindFramebuffer
    \/ BindTexture
    \/ Color
    \/ ProjectionMatrix
    \/ ModelViewMatrix
    \/ Viewport
    \/ Scissor

SpecState == Init /\ [][NextState]_vars

\* ------------------------------------------- the immediate mode's calls ---

\* prBegin(primitives) on a cleared framebuffer; with a capture open
\* already it reports an error and changes nothing else.
Begin ==
    \E primitives \in PrimitiveKinds :
        /\ ~immediate.open
        /\ framebuffer = {}
        /\ immediate' = immediate_mode_begin(immediate, primitives)
        /\ call' = [NoCall EXCEPT !.op = "begin", !.arg = primitives]
        /\ UNCHANGED <<texture, lastError, stateMachine, framebuffer>>

BeginWhileOpen ==
    \E primitives \in PrimitiveKinds, errorID \in ErrorCodes :
        /\ immediate.open
        /\ lastError' = pr_error_set(errorID)
        /\ call' = [NoCall EXCEPT !.op = "begin", !.arg = primitives,
                                  !.ret = FALSE]
        /\ UNCHANGED <<texture, stateMachine, immediate, framebuffer>>

\* prVertex between prBegin and prEnd.
Vertex ==
    /\ immediate.open
    /\ immediate.issued < MaxVertices
    /\ \E r \in {immediate_mode_add_vertex(
                      [im |-> immediate, fb |-> framebuffer])} :
            /\ immediate' = r.im
            /\ framebuffer' = r.fb
    /\ call' = [NoCall EXCEPT !.op = "vertex"]
    /\ UNCHANGED <<texture, lastError, stateMachine>>

\* prEnd; with no capture open it reports an error and changes nothing else.
End ==
    /\ immediate.open
    /\ \E r \in {immediate_mode_end([im |-> immediate, fb |-> framebuffer])} :
            /\ immediate' = r.im
            /\ framebuffer' = r.fb
    /\ call' = [NoCall EXCEPT !.op = "end"]
    /\ UNCHANGED <<texture, lastError, stateMachine>>

EndWhileClosed ==
    \E errorID \in ErrorCodes :
        /\ ~immediate.open
        /\ lastError' = pr_error_set(errorID)
        /\ call' = [NoCall EXCEPT !.op = "end", !.ret = FALSE]
        /\ UNCHANGED <<texture, stateMachine, immediate, framebuffer>>

\* prClearFramebuffer outside a capture.
ClearFramebuffer ==
    /\ ~immediate.open
    /\ framebuffer' = {}
    /\ call' = [NoCall EXCEPT !.op = "clear"]
    /\ UNCHANGED <<texture, lastError, stateMachine, immediate>>

NextImmediate ==
    \/ Begin
    \/ BeginWhileOpen
    \/ Vertex
    \/ End
    \/ EndWhileClosed
    \/ ClearFramebuffer

SpecImmediate == Init /\ [][NextImmediate]_vars

\* _pr_texture_num_mips: ceilf(log2f(maxSize)) + 1 of a PRubyte maxSize.
RECURSIVE FloorLog2(_)
FloorLog2(n) == IF n <= 1 THEN 0 ELSE 1 + FloorLog2(n \div 2)

CeilLog2(n) == IF n <= 1 THEN 0 ELSE 1 + FloorLog2(n - 1)

pr_texture_num_mips(maxSize) ==
    IF ToUByte(maxSize) > 0 THEN ToUByte(CeilLog2(ToUByte(maxSize))) + 1 ELSE 0

\* ------------------------------------------------- claims: the upload ---

\* The last step was an upload to the texture with a non-empty size.
UploadedToTexture ==
    /\ call.op = "upload"
    /\ call.handle = "texture"
    /\ call.width >= 1
    /\ call.height >= 1

\* The memory events of the last call with the given operation on buf.
EventsOf(c, op, buf) ==
    {k \in 1 .. Len(c.events) : c.events[k].op = op /\ c.events[k].buf = buf}

\* C1 as stated: after a successful upload the stored MIP count is 1 without
\* generateMips and ceil(log2(max(width, height))) + 1 with it, the value of
\* _pr_texture_num_mips.
C1_MipCountIsCeilLog2 ==
    (UploadedToTexture /\ call.ret) =>
        texture.mips = IF call.generateMips
                       THEN pr_texture_num_mips(Max(call.width, call.height))
                       ELSE 1

\* C1 amended: after a successful upload the stored MIP count is 1 without
\* generateMips and floor(log2(max(width, height))) + 1 with it: the number
\* of halvings that bring both dimensions to 1, plus one.
C1_MipCountIsFloorLog2 ==
    (UploadedToTexture /\ call.ret) =>
        texture.mips = IF call.generateMips
                       THEN FloorLog2(Max(call.width, call.height)) + 1
                       ELSE 1

\* A successful upload with MIP maps of a size that is no power of two.
C1_Witness ==
    /\ UploadedToTexture
    /\ call.ret
    /\ call.generateMips
    /\ call.width = 3
    /\ call.height = 2
    /\ texture.mips = 2

\* Sum over the levels L in [0, mips) of max(1, width>>L) * max(1, height>>L).
RECURSIVE LevelSum(_, _, _)
LevelSum(width, height, mips) ==
    IF mips = 0 THEN 0
    ELSE LevelSum(width, height, mips - 1)
         + Max(1, width \div (2 ^ (mips - 1))) * Max(1, height \div (2 ^ (mips - 1)))

\* C2: in every reachable state the size of the texel storage is the sum of
\* the level sizes for the texture's current width, height and MIP count.
C2_StorageSize ==
    Len(texture.texels) = LevelSum(texture.width, texture.height, texture.mips)

\* A 4x4 texture with MIP maps holding 16 + 4 + 1 texels.
C2_Witness ==
    /\ UploadedToTexture
    /\ texture.width = 4
    /\ texture.height = 4
    /\ texture.mips = 3
    /\ Len(texture.texels) = 21

\* C3: an upload with an unsupported format returns failure and records
\* InvalidArgument.
C3_UnsupportedFormatFails ==
    (UploadedToTexture /\ call.format # PR_IMAGE_FORMAT_UBYTE_RGB) =>
        (call.ret = FALSE /\ lastError = PR_ERROR_INVALID_ARGUMENT)

\* C4: an upload to the texture with a zero width or height returns failure,
\* records InvalidArgument and leaves the texture as it was.
C4_ZeroSizeRejected ==
    [][(/\ call'.op = "upload"
        /\ call'.handle = "texture"
        /\ (call'.width = 0 \/ call'.height = 0))
       => (/\ call'.ret = FALSE
           /\ lastError' = PR_ERROR_INVALID_ARGUMENT
           /\ texture' = texture)]_vars

\* A rejected empty upload to a texture that holds texels.
C4_Witness ==
    /\ call.op = "upload"
    /\ call.handle = "texture"
    /\ call.width = 0
    /\ call.height = MaxSize
    /\ call.ret = FALSE
    /\ lastError = PR_ERROR_INVALID_ARGUMENT
    /\ texture.mips = 3
    /\ \E k \in 1 .. Len(texture.texels) : texture.texels[k] # 0

\* C5: an upload through a null handle returns failure, records NullPointer
\* whatever the other arguments are, and allocates, frees and writes nothing.
C5_NullHandleRejected ==
    [][(call'.op = "upload" /\ call'.handle = "NULL")
       => (/\ call'.ret = FALSE
           /\ lastError' = PR_ERROR_NULL_POINTER
           /\ call'.events = <<>>
           /\ texture' = texture)]_vars

\* A rejected upload through a null handle with an empty size and an
\* unsupported format.
C5_Witness ==
    /\ call.op = "upload"
    /\ call.handle = "NULL"
    /\ call.width = 0
    /\ call.format = PR_IMAGE_FORMAT_OTHER
    /\ call.ret = FALSE
    /\ lastError = PR_ERROR_NULL_POINTER
    /\ texture.texels # <<>>

\* C7: an upload replaces the texel storage exactly when the requested width,
\* height or MIP count differs from the texture's; otherwise the block stays
\* and the call only writes texels into it.
C7_ReallocateIffChanged ==
    [][(/\ call'.op = "upload"
        /\ call'.handle = "texture"
        /\ call'.width >= 1
        /\ call'.height >= 1)
       => LET mips == IF call'.generateMips
                      THEN FloorLog2(Max(call'.width, call'.height)) + 1
                      ELSE 1
              changed == \/ texture.width # call'.width
                         \/ texture.height # call'.height
                         \/ texture.mips # mips
              allocs == EventsOf(call', "alloc", BufTexels)
              frees == EventsOf(call', "free", BufTexels)
                           \cup EventsOf(call', "free", BufNull)
          IN  /\ changed <=> allocs # {}
              /\ changed <=> frees # {}
              /\ ~changed =>
                    /\ Len(texture'.texels) = Len(texture.texels)
                    /\ texture'.width = texture.width
                    /\ texture'.height = texture.height
                    /\ texture'.mips = texture.mips]_vars

\* A successful upload of the size and MIP count the texture already had:
\* texels are written and the block is neither freed nor allocated.
C7_Witness ==
    /\ UploadedToTexture
    /\ call.ret
    /\ call.format = PR_IMAGE_FORMAT_UBYTE_RGB
    /\ call.generateMips
    /\ call.width = 4
    /\ EventsOf(call, "alloc", BufTexels) = {}
    /\ EventsOf(call, "free", BufTexels) = {}
    /\ EventsOf(call, "write", BufTexels) # {}

\* ------------------------------------------------ claims: the lookups ---

\* C6: sample_nearest reads column floor(frac(u) * width) and row
\* floor(frac(v) * height) with frac(t) = t - floor(t), so that a coordinate
\* moved by a whole number reads the same texel, negative ones included.
C6_SampleWraps ==
    (call.op = "sample" /\ call.done) =>
        /\ call.out.x = ((call.u % CoordDen) * texture.width) \div CoordDen
        /\ call.out.y = ((call.v % CoordDen) * texture.height) \div CoordDen
        /\ \A k \in {-1, 1} :
              (call.u + k * CoordDen) \in Coords =>
                  SampleCoord(texture.width, call.u + k * CoordDen) = call.out.x

\* C8: select_level_storage behaves for every requested level as for level
\* min(level, mipCount - 1): a level of the texture, its width and height,
\* and a pointer to that level inside the texture's storage, for the empty
\* texture too.
C8_SelectClampsLevel ==
    (call.op = "select" /\ call.done) =>
        LET level == Min(call.mip, texture.mips - 1)
        IN  /\ level >= 0
            /\ call.out.mip = level
            /\ call.out.width = Max(1, texture.width \div (2 ^ level))
            /\ call.out.height = Max(1, texture.height \div (2 ^ level))
            /\ call.out.offset = LevelSum(texture.width, texture.height, level)
            /\ call.out.offset < Len(texture.texels)
            /\ call.out.offset + call.out.width * call.out.height
                   <= Len(texture.texels)

\* C9: for a texture with at least one MIP level, a texel area >= 0 and a
\* pixel area > 0, select_mip_level returns the integer part of
\* texelArea * (width*height)/2 / pixelArea clamped to [0, mipCount - 1],
\* a level of the texture, and a larger ratio texelArea/pixelArea never
\* gives a smaller level.
C9_ComputedLevelInRange ==
    (call.op = "compute" /\ call.done /\ texture.mips >= 1) =>
        /\ call.out.level \in 0 .. texture.mips - 1
        /\ call.out.level =
              Min(Max((call.texelArea * texture.width * texture.height)
                          \div (2 * call.pixelArea), 0),
                  texture.mips - 1)
        /\ \A p \in 1 .. MaxArea, t \in 0 .. MaxArea :
              (call.texelArea * p <= t * call.pixelArea) =>
                  call.out.level <= pr_texutre_compute_miplevel(texture, p, t)

\* A selection of the middle level of a 4x4 texture with three levels.
C9_Witness ==
    /\ call.op = "compute"
    /\ call.done
    /\ texture.width = 4
    /\ texture.height = 4
    /\ texture.mips = 3
    /\ call.texelArea = 1
    /\ call.out.level = 1

\* C10: scaling down a uniform image with a dimension above 1 gives a
\* uniform image of max(1, width/2) x max(1, height/2) texels of the very
\* same colour, for every channel value.
C10_UniformStaysUniform ==
    (call.op = "scale" /\ call.done /\ (call.width > 1 \/ call.height > 1)) =>
        /\ Len(call.out) = Max(1, call.width \div 2) * Max(1, call.height \div 2)
        /\ \A k \in 1 .. Len(call.out) :
              \A i \in 1 .. 3 : call.out[k][i] = call.color

\* A 3x2 image of the largest channel value scaled down to one texel.
C10_Witness ==
    /\ call.op = "scale"
    /\ call.done
    /\ call.width = 3
    /\ call.height = 2
    /\ call.color = UByteRange - 1
    /\ call.out = << <<UByteRange - 1, UByteRange - 1, UByteRange - 1>> >>

\* ------------------------------------- claims: errors and edge cases ---

\* C11: the last error is the error of the most recent operation that
\* failed.  Step by step: an operation that returns failure leaves an error
\* recorded, and one that returns success (or cannot fail, as create) has
\* recorded none, so that the last error is what it was before the call.
C11_LastErrorIsLastFailure ==
    [][/\ (call'.op = "upload" /\ call'.ret = FALSE) =>
              lastError' \in {PR_ERROR_NULL_POINTER, PR_ERROR_INVALID_ARGUMENT}
       /\ (call'.op = "upload" /\ call'.ret = TRUE) => lastError' = lastError
       /\ call'.op = "create" => lastError' = lastError]_vars

\* C12: an upload of a 1x1 image leaves one MIP level and one texel of
\* storage with and without generateMips; no image is scaled down and
\* nothing is written beyond level 0.
C12_OneByOneHasOneLevel ==
    (UploadedToTexture /\ call.width = 1 /\ call.height = 1) =>
        /\ texture.mips = 1
        /\ Len(texture.texels) = 1
        /\ \A k \in 1 .. Len(call.events) :
              /\ call.events[k].op = "alloc" => call.events[k].buf = BufTexels
              /\ call.events[k].op = "write" =>
                    (call.events[k].off = 0 /\ call.events[k].n = 1)

\* A 1x1 upload with generateMips that wrote its one texel.
C12_Witness ==
    /\ UploadedToTexture
    /\ call.width = 1
    /\ call.height = 1
    /\ call.generateMips
    /\ call.ret
    /\ texture.mips = 1
    /\ Len(texture.texels) = 1
    /\ EventsOf(call, "write", BufTexels) = {1}

\* --------------------------------------------- claims: the MIP chain ---

\* The sum of the first n entries of the sequence f.
RECURSIVE SumTo(_, _)
SumTo(f, n) == IF n = 0 THEN 0 ELSE f[n] + SumTo(f, n - 1)

\* One box-filter step as the claim words it: max(1, w/2) x max(1, h/2)
\* texels, each channel the floor of the average of the 2x2 block, or of
\* the pair of texels where the image is one texel wide or high.
FloorAverageDown(px, w, h) ==
    LET sw == Max(1, w \div 2)
        sh == Max(1, h \div 2)
    IN  [k \in 1 .. sw * sh |->
            LET x == (k - 1) % sw
                y == (k - 1) \div sw
                cols == IF w > 1 THEN <<2 * x, 2 * x + 1>> ELSE <<0>>
                rows == IF h > 1 THEN <<2 * y, 2 * y + 1>> ELSE <<0>>
                n == Len(cols) * Len(rows)
            IN  [i \in 1 .. 3 |->
                    SumTo([j \in 1 .. n |->
                              px[rows[((j - 1) \div Len(cols)) + 1] * w
                                 + cols[((j - 1) % Len(cols)) + 1] + 1][i]], n)
                        \div n]]

\* The image after L box-filter steps, starting from px of size w x h.
RECURSIVE FloorAverageTimes(_, _, _, _)
FloorAverageTimes(px, w, h, L) ==
    IF L = 0 THEN px
    ELSE FloorAverageTimes(FloorAverageDown(px, w, h),
                           Max(1, w \div 2), Max(1, h \div 2), L - 1)

\* C15: after a successful upload with generateMips, the texels of every
\* level L >= 1 are the colour indices of the caller's RGB image box-filtered
\* L times; the indices of the level before are never what is scaled down.
C15_MipsFromOriginalRGB ==
    (UploadedToTexture /\ call.ret /\ call.generateMips
        /\ call.format = PR_IMAGE_FORMAT_UBYTE_RGB) =>
        \A L \in 1 .. texture.mips - 1 :
            LET first == LevelSum(call.width, call.height, L)
                last == LevelSum(call.width, call.height, L + 1)
                rgb == FloorAverageTimes(
                           Image(call.seed, call.width, call.height),
                           call.width, call.height, L)
            IN  /\ last <= Len(texture.texels)
                /\ SubSeq(texture.texels, first + 1, last) =
                      [k \in 1 .. Len(rgb) |->
                          (rgb[k][1] \div 32) * 32 + (rgb[k][2] \div 32) * 4
                              + (rgb[k][3] \div 64)]

\* A 4x3 upload with generateMips: three levels of 12, 2 and 1 texels, the
\* last one written.
C15_Witness ==
    /\ UploadedToTexture
    /\ call.ret
    /\ call.generateMips
    /\ call.width = 4
    /\ call.height = 3
    /\ texture.mips = 3
    /\ Len(texture.texels) = 15
    /\ texture.texels[15] # 0

\* C16: an upload never frees the caller's pixel buffer, and frees every
\* scaled-down buffer it allocated exactly once, after allocating it.
C16_BuffersOwnedCorrectly ==
    UploadedToTexture =>
        /\ EventsOf(call, "free", BufData) = {}
        /\ \A k \in 1 .. Len(call.events) :
              LET e == call.events[k]
              IN  /\ (e.op = "alloc" /\ e.buf[1] = "scaled") =>
                        /\ Cardinality(EventsOf(call, "free", e.buf)) = 1
                        /\ \A j \in EventsOf(call, "free", e.buf) : j > k
                  /\ (e.op = "free" /\ e.buf[1] = "scaled") =>
                        \E j \in EventsOf(call, "alloc", e.buf) : j < k

\* C18: an upload that returns failure or records an error (null handle,
\* zero size, unsupported format) leaves the texture's width, height, MIP
\* count and texels as they were before the call.
C18_FailedUploadIsAtomic ==
    [][(/\ call'.op = "upload"
        /\ \/ call'.ret = FALSE
           \/ call'.format # PR_IMAGE_FORMAT_UBYTE_RGB)
       => texture' = texture]_vars

\* The write events of a call, in the order they were made.
WritesOf(c) ==
    LET IsWrite(e) == e.op = "write"
    IN  SelectSeq(c.events, IsWrite)

\* C19: the writes of an upload in the supported format are one per level,
\* the one for level L covering exactly [offset(L), offset(L) + size(L))
\* with offset(L) the sum of the sizes of the levels before; all lie inside
\* the storage, which the levels fill without gap or overlap; and every pixel
\* the box filter reads lies inside the image it scales down.
C19_WritesAndReadsInBounds ==
    (UploadedToTexture /\ call.format = PR_IMAGE_FORMAT_UBYTE_RGB) =>
        LET writes == WritesOf(call)
            levelWidth(L) == Max(1, call.width \div (2 ^ L))
            levelHeight(L) == Max(1, call.height \div (2 ^ L))
        IN  /\ Len(writes) = texture.mips
            /\ \A L \in 0 .. texture.mips - 1 :
                  /\ writes[L + 1].off = LevelSum(call.width, call.height, L)
                  /\ writes[L + 1].n = levelWidth(L) * levelHeight(L)
                  /\ writes[L + 1].off + writes[L + 1].n <= Len(texture.texels)
            /\ LevelSum(call.width, call.height, texture.mips)
                   = Len(texture.texels)
            /\ \A L \in 0 .. texture.mips - 2 :
                  \A p \in image_scale_down_reads(levelWidth(L), levelHeight(L)) :
                      /\ p[1] \in 0 .. levelWidth(L) - 1
                      /\ p[2] \in 0 .. levelHeight(L) - 1

\* A 3x3 upload with generateMips: 9 texels written at offset 0 and 1 at
\* offset 9, after reading the pixels (0..1, 0..1) of the 3x3 image.
C19_Witness ==
    /\ UploadedToTexture
    /\ call.ret
    /\ call.generateMips
    /\ call.width = 3
    /\ call.height = 3
    /\ Len(texture.texels) = 10
    /\ WritesOf(call) = <<EvWrite(0, 9), EvWrite(9, 1)>>
    /\ image_scale_down_reads(3, 3) = {<<0, 0>>, <<1, 0>>, <<1, 1>>, <<0, 1>>}

\* A dimension floor-halved L times, never below 1.
RECURSIVE HalvedTimes(_, _)
HalvedTimes(size, L) ==
    IF L = 0 THEN size ELSE HalvedTimes(Max(1, size \div 2), L - 1)

\* C20: for a texture left by a successful upload and a level L of it,
\* select_level_storage returns the offset, width and height the upload
\* used when it wrote level L: the offset is the sum over k < L of the
\* halved width times the halved height, the dimensions are the base
\* dimensions halved L times, and the texels found there are those the upload
\* made for level L.
C20_SelectAgreesWithUpload ==
    (call.op = "select" /\ call.done /\ call.mip < texture.mips) =>
        \A generateMips \in BOOLEAN :
            LET data == [id |-> BufData,
                         px |-> Image(1, texture.width, texture.height)]
                up == pr_texture_image2d(pr_texture_create, PR_ERROR_NONE,
                          "texture", texture.width, texture.height,
                          PR_IMAGE_FORMAT_UBYTE_RGB, data, generateMips)
                L == call.mip
                w == HalvedTimes(texture.width, L)
                h == HalvedTimes(texture.height, L)
                rgb == FloorAverageTimes(data.px, texture.width,
                                         texture.height, L)
            IN  (up.ret /\ up.tex = texture) =>
                    /\ call.out.offset = WritesOf(up)[L + 1].off
                    /\ call.out.offset =
                          SumTo([k \in 1 .. L |->
                                    HalvedTimes(texture.width, k - 1)
                                        * HalvedTimes(texture.height, k - 1)], L)
                    /\ call.out.width = w
                    /\ call.out.height = h
                    /\ WritesOf(up)[L + 1].n = w * h
                    /\ SubSeq(texture.texels, call.out.offset + 1,
                              call.out.offset + w * h) =
                          [k \in 1 .. w * h |->
                              (rgb[k][1] \div 32) * 32 + (rgb[k][2] \div 32) * 4
                                  + (rgb[k][3] \div 64)]

\* The lookup of the last level of a 4x3 texture with three levels: one
\* texel at offset 12 + 2.
C20_Witness ==
    /\ call.op = "select"
    /\ call.done
    /\ call.mip = 2
    /\ texture.width = 4
    /\ texture.height = 3
    /\ texture.mips = 3
    /\ call.out = [mip |-> 2, width |-> 1, height |-> 1, offset |-> 14]

\* ------------------------------------------ claims: sub-image update ---

\* C17: a sub-image update of a valid texture fails with InvalidArgument
\* exactly when the texture has no storage, the level is not one of the
\* texture's, the width or height is 0, or the rectangle
\* [x, x + width) x [y, y + height) does not lie inside the texture; every
\* other update succeeds, one that ends on the right or bottom edge or covers
\* the whole texture included.
C17_SubImageValidation ==
    (call.op = "subimage" /\ call.done /\ call.handle = "texture") =>
        LET invalid == \/ texture.texels = <<>>
                       \/ call.mip >= texture.mips
                       \/ call.width = 0
                       \/ call.height = 0
                       \/ call.x + call.width > texture.width
                       \/ call.y + call.height > texture.height
        IN  /\ call.ret = ~invalid
            /\ invalid => lastError = PR_ERROR_INVALID_ARGUMENT
            /\ ~invalid => lastError = PR_ERROR_NONE

\* ------------------------------------------ claims: the state machine ---

\* C14: every bind and set call overwrites its own field with its argument
\* and leaves every other field as it was; binding the null handle leaves
\* nothing bound; binding a framebuffer leaves the texture binding, the
\* colour index, the matrices, the viewport and the scissor unchanged.
C14_BindSetsOneField ==
    [][/\ call'.op = "bindFramebuffer" =>
              stateMachine' =
                  [stateMachine EXCEPT !.boundFramebuffer = call'.handle]
       /\ call'.op = "bindTexture" =>
              stateMachine' = [stateMachine EXCEPT !.boundTexture = call'.handle]
       /\ call'.op = "color" =>
              stateMachine' = [stateMachine EXCEPT !.colorIndex = call'.color]
       /\ call'.op = "projectionMatrix" =>
              stateMachine' = [stateMachine EXCEPT !.projectionMatrix = call'.arg]
       /\ call'.op = "modelViewMatrix" =>
              stateMachine' = [stateMachine EXCEPT !.modelViewMatrix = call'.arg]]_vars

\* The framebuffer binding cleared while a texture is bound and the colour
\* index, both matrices, the viewport and the scissor have been set.
C14_Witness ==
    /\ call.op = "bindFramebuffer"
    /\ call.handle = "NULL"
    /\ stateMachine.boundFramebuffer = "NULL"
    /\ stateMachine.boundTexture = "object2"
    /\ stateMachine.colorIndex = UByteRange - 1
    /\ stateMachine.projectionMatrix = "matrixA"
    /\ stateMachine.modelViewMatrix = "matrixB"
    /\ stateMachine.viewport = <<0, 0, 4, 4>>
    /\ stateMachine.scissor = <<1, 1, 2, 2>>

\* ------------------------------------------ claims: immediate mode ---

\* C13: the number of captured vertices never exceeds the capacity of the
\* buffer, and when prEnd has closed a capture of N vertices of any kind,
\* begun on a cleared framebuffer, the framebuffer is what one draw call of
\* the same N vertices from a vertex buffer leaves.
C13_StreamingEqualsSingleDraw ==
    /\ Len(immediate.vertices) <= PR_NUM_IMMEDIATE_VERTICES
    /\ (call.op = "end" /\ call.ret) =>
           framebuffer = pr_render({}, immediate.primitives,
                                   [k \in 1 .. immediate.issued |-> k])

====
